---------------------------- MODULE Spec2Model ----------------------------
(***************************************************************************)
(* Model of the Go package iban (src/iban.go): validation and decomposition *)
(* of IBAN account numbers.                                                 *)
(*                                                                          *)
(* A Go string is modelled as a sequence of one-character strings, one per  *)
(* byte; only 7-bit ASCII bytes are modelled.  A Go run-time panic (a slice *)
(* out of range) is modelled as an outcome of its own, never as an error    *)
(* value.                                                                   *)
(***************************************************************************)
EXTENDS Integers, Sequences, FiniteSets, TLC

(***************************************************************************)
(* Bytes.                                                                   *)
(***************************************************************************)
DigitChars == <<"0", "1", "2", "3", "4", "5", "6", "7", "8", "9">>

UpperChars ==
    <<"A", "B", "C", "D", "E", "F", "G", "H", "I", "J", "K", "L", "M",
      "N", "O", "P", "Q", "R", "S", "T", "U", "V", "W", "X", "Y", "Z">>

LowerChars ==
    <<"a", "b", "c", "d", "e", "f", "g", "h", "i", "j", "k", "l", "m",
      "n", "o", "p", "q", "r", "s", "t", "u", "v", "w", "x", "y", "z">>

\* The byte value of every modelled character.
ASCII ==
    [c \in {DigitChars[i] : i \in 1..10} |-> 47 + (CHOOSE i \in 1..10 : DigitChars[i] = c)]
    @@ [c \in {UpperChars[i] : i \in 1..26} |-> 64 + (CHOOSE i \in 1..26 : UpperChars[i] = c)]
    @@ [c \in {LowerChars[i] : i \in 1..26} |-> 96 + (CHOOSE i \in 1..26 : LowerChars[i] = c)]
    @@ (" " :> 32) @@ ("\t" :> 9) @@ ("+" :> 43) @@ ("-" :> 45) @@ ("." :> 46)

\* strings.ToUpper on one ASCII byte: 'a'..'z' lose 32, every other byte stays.
UpperChar(c) ==
    IF ASCII[c] >= 97 /\ ASCII[c] <= 122 THEN UpperChars[ASCII[c] - 96] ELSE c

\* strings.ToUpper.
ToUpper(s) == [i \in 1..Len(s) |-> UpperChar(s[i])]

\* strings.Replace(s, " ", "", -1) and strings.ReplaceAll(text, " ", ""):
\* only the space byte is removed, no other white space.
removeSpaces(text) == SelectSeq(text, LAMBDA c : c # " ")

\* The Go slice expression s[lo:hi] (0-based, hi exclusive) panics unless
\* 0 <= lo <= hi <= len(s).
SliceOK(s, lo, hi) == 0 <= lo /\ lo <= hi /\ hi <= Len(s)

Slice(s, lo, hi) == SubSeq(s, lo + 1, hi)

\* White space as unicode.IsSpace sees it, among the modelled bytes.
IsSpace(c) == c \in {" ", "\t"}

RECURSIVE TrimLeft(_)
TrimLeft(s) ==
    IF s # <<>> /\ IsSpace(Head(s)) THEN TrimLeft(Tail(s)) ELSE s

RECURSIVE TrimRight(_)
TrimRight(s) ==
    IF s # <<>> /\ IsSpace(s[Len(s)]) THEN TrimRight(SubSeq(s, 1, Len(s) - 1)) ELSE s

\* strings.TrimSpace.
TrimSpace(s) == TrimRight(TrimLeft(s))

\* strings.Index(s, m) for a one-byte m: the 0-based first position, or -1.
Index(s, m) ==
    IF \E i \in 1..Len(s) : s[i] = m
    THEN (CHOOSE i \in 1..Len(s) : s[i] = m /\ \A j \in 1..(i - 1) : s[j] # m) - 1
    ELSE -1

\* strings.LastIndex(s, m) for a one-byte m: the 0-based last position, or -1.
LastIndex(s, m) ==
    IF \E i \in 1..Len(s) : s[i] = m
    THEN (CHOOSE i \in 1..Len(s) : s[i] = m /\ \A j \in (i + 1)..Len(s) : s[j] # m) - 1
    ELSE -1

\* strconv.Itoa: the decimal text of an integer, "-" first when negative.
RECURSIVE ItoaNat(_)
ItoaNat(n) ==
    IF n < 10 THEN <<DigitChars[n + 1]>>
    ELSE Append(ItoaNat(n \div 10), DigitChars[(n % 10) + 1])

Itoa(n) == IF n < 0 THEN <<"-">> \o ItoaNat(-n) ELSE ItoaNat(n)

\* The digits of strconv.Atoi's loop: ch -= '0'; ch > 9 is an error.
IsDigit(c) == ASCII[c] >= 48 /\ ASCII[c] <= 57

RECURSIVE DigitsValue(_)
DigitsValue(s) ==
    IF s = <<>> THEN 0
    ELSE DigitsValue(SubSeq(s, 1, Len(s) - 1)) * 10 + (ASCII[s[Len(s)]] - 48)

\* strconv.Atoi on a text of at most 9 bytes: one optional sign, "+" or "-",
\* then one or more decimal digits; anything else is an error.
Atoi(s) ==
    LET signed == s # <<>> /\ s[1] \in {"+", "-"}
        body   == IF signed THEN Tail(s) ELSE s
    IN  IF body = <<>> \/ \E i \in 1..Len(body) : ~IsDigit(body[i])
        THEN [ok |-> FALSE, value |-> 0]
        ELSE [ok |-> TRUE,
              value |-> IF signed /\ s[1] = "-" THEN -DigitsValue(body)
                        ELSE DigitsValue(body)]

\* Go's % truncates toward zero: the remainder has the sign of the dividend.
GoRem(value, m) == IF value >= 0 THEN value % m ELSE -((-value) % m)

(***************************************************************************)
(* The country table.  countryList is a map from the country code to the    *)
(* country's entry; of an entry the code reads chars (the IBAN's length),   *)
(* code and ibanFields (the layout of the formatted IBAN, one marker per    *)
(* byte: b bank code, s sort code, c account number).  The rows are those   *)
(* of Luxembourg and Spain, which the tests use, of Norway, the shortest    *)
(* IBAN, and of the United Kingdom, whose layout has a sort code.           *)
(***************************************************************************)
countryList ==
    (<<"L", "U">> :>
        [chars |-> 20, code |-> <<"L", "U">>,
         ibanFields |-> <<"L", "U", "k", "k", " ", "b", "b", "b", "c", " ",
                          "c", "c", "c", "c", " ", "c", "c", "c", "c", " ",
                          "c", "c", "c", "c">>])
    @@ (<<"E", "S">> :>
        [chars |-> 24, code |-> <<"E", "S">>,
         ibanFields |-> <<"E", "S", "k", "k", " ", "b", "b", "b", "b", " ",
                          "g", "g", "g", "g", " ", "x", "x", "c", "c", " ",
                          "c", "c", "c", "c", " ", "c", "c", "c", "c">>])
    @@ (<<"N", "O">> :>
        [chars |-> 15, code |-> <<"N", "O">>,
         ibanFields |-> <<"N", "O", "k", "k", " ", "b", "b", "b", "b", " ",
                          "c", "c", "c", "c", " ", "c", "c", "x">>])
    @@ (<<"G", "B">> :>
        [chars |-> 22, code |-> <<"G", "B">>,
         ibanFields |-> <<"G", "B", "k", "k", " ", "b", "b", "b", "b", " ",
                          "s", "s", "s", "s", " ", "s", "s", "c", "c", " ",
                          "c", "c", "c", "c", " ", "c", "c">>])

\* The zero value of ibanCountry, which a Go map returns for a missing key.
ZeroCountry == [chars |-> 0, code |-> <<>>, ibanFields |-> <<>>]

\* countryList[passedCode].
Lookup(passedCode) ==
    IF passedCode \in DOMAIN countryList THEN countryList[passedCode] ELSE ZeroCountry

(***************************************************************************)
(* Errors.                                                                  *)
(***************************************************************************)
NoError == "nil"

ErrInvalidIBAN == "Invalid IBAN number received"

ErrIncorrectString == "IBAN: incorect IBAN string passed"

ErrCountry == "IBAN: country is not in the list"

ErrLength == "IBAN: lenght does not match configuration length"

(***************************************************************************)
(* The IBAN record.                                                         *)
(***************************************************************************)
ZeroIBAN ==
    [Number |-> <<>>, NumberFormated |-> <<>>, CountryCode |-> <<>>,
     Checksum |-> <<>>, BBAN |-> <<>>, BankCode |-> <<>>, SortCode |-> <<>>,
     AccountNumber |-> <<>>]

(***************************************************************************)
(* The checksum pipeline.                                                   *)
(***************************************************************************)
\* splitIbanUp panics when iban[0:2], iban[2:4] or iban[4:] is out of range.
splitIbanUpPanics(iban) ==
    ~(SliceOK(iban, 0, 2) /\ SliceOK(iban, 2, 4) /\ SliceOK(iban, 4, Len(iban)))

splitIbanUp(iban) ==
    [countryCode |-> Slice(iban, 0, 2),
     checksum    |-> Slice(iban, 2, 4),
     bban        |-> Slice(iban, 4, Len(iban))]

rearrangeIBAN(countryCode, checksum, bban) == bban \o countryCode \o checksum

\* Every byte 'A'..'Z' becomes the decimal text of byte - 55, every other byte
\* stays as it is.
RECURSIVE convertCharToNumber(_)
convertCharToNumber(value) ==
    IF value = <<>> THEN <<>>
    ELSE LET item == Head(value)
         IN  (IF ~((ASCII[item] < ASCII["A"]) \/ (ASCII[item] > ASCII["Z"]))
              THEN Itoa(ASCII[item] - 55)
              ELSE <<item>>) \o convertCharToNumber(Tail(value))

\* The reduction of calculateModulo with the remainder of a chunk dropped, not
\* carried into the next chunk.
RECURSIVE calculateModuloNoCarry(_)
calculateModuloNoCarry(iban) ==
    IF Len(iban) > 9
    THEN LET a == Atoi(Slice(iban, 0, 9))
         IN  IF ~a.ok THEN -1
             ELSE calculateModuloNoCarry(Slice(iban, 9, Len(iban)))
    ELSE LET a == Atoi(iban)
         IN  IF ~a.ok THEN -1 ELSE GoRem(a.value, 97)

\* The remainder modulo 97 of a decimal text, nine bytes at a time: the
\* remainder of a chunk is written back in front of the rest.  -1 when a
\* chunk is not a number.
RECURSIVE calculateModulo(_)
calculateModulo(iban) ==
    IF Len(iban) > 9
    THEN LET a == Atoi(Slice(iban, 0, 9))
         IN  IF ~a.ok THEN -1
             ELSE calculateModulo(Itoa(GoRem(a.value, 97)) \o Slice(iban, 9, Len(iban)))
    ELSE LET a == Atoi(iban)
         IN  IF ~a.ok THEN -1 ELSE GoRem(a.value, 97)

\* splitTo4: blocks of four bytes, a space after every full block, and the
\* result trimmed.
RECURSIVE splitTo4From(_, _)
splitTo4From(value, n) ==
    IF n < Len(value)
    THEN (IF n < Len(value) - 3
          THEN Slice(value, n, n + 4) \o <<" ">>
          ELSE Slice(value, n, Len(value))) \o splitTo4From(value, n + 4)
    ELSE <<>>

splitTo4(value) == TrimSpace(splitTo4From(value, 0))

(***************************************************************************)
(* The public functions.  Each returns a record whose field panic tells     *)
(* that the call ended in a run-time panic; the other fields are the        *)
(* function's return values.                                                *)
(***************************************************************************)
IsCorrectIbanPanic ==
    [panic |-> TRUE, isValid |-> FALSE, wellFormated |-> <<>>, err |-> NoError]

IsCorrectIbanReturn(isValid, wellFormated, err) ==
    [panic |-> FALSE, isValid |-> isValid, wellFormated |-> wellFormated, err |-> err]

IsCorrectIban(raw) ==
    IF Len(raw) >= 15
    THEN LET iban == ToUpper(removeSpaces(raw))
         IN  IF splitIbanUpPanics(iban) THEN IsCorrectIbanPanic
             ELSE LET passedChars == Len(iban)
                      parts       == splitIbanUp(iban)
                      ibanConfig  == Lookup(parts.countryCode)
                      convertedIban ==
                          convertCharToNumber(
                              rearrangeIBAN(parts.countryCode, parts.checksum, parts.bban))
                  IN  IF ibanConfig.chars > 0
                      THEN IF ibanConfig.chars = passedChars
                           THEN IF calculateModulo(convertedIban) = 1
                                THEN IsCorrectIbanReturn(TRUE, splitTo4(iban), NoError)
                                ELSE IsCorrectIbanReturn(FALSE, <<>>, NoError)
                           ELSE IsCorrectIbanReturn(FALSE, <<>>, ErrLength)
                      ELSE IsCorrectIbanReturn(FALSE, <<>>, ErrCountry)
    ELSE IsCorrectIbanReturn(FALSE, <<>>, ErrIncorrectString)

GetIbanChecksum(raw) ==
    IF Len(raw) > 15
    THEN LET iban == ToUpper(removeSpaces(raw))
         IN  IF splitIbanUpPanics(iban) THEN [panic |-> TRUE, checksum |-> 0, err |-> NoError]
             ELSE LET parts == splitIbanUp(iban)
                      convertedIban ==
                          convertCharToNumber(
                              rearrangeIBAN(parts.countryCode, <<"0", "0">>, parts.bban))
                  IN  [panic |-> FALSE,
                       checksum |-> 98 - calculateModulo(convertedIban),
                       err |-> NoError]
    ELSE [panic |-> FALSE, checksum |-> -1, err |-> ErrIncorrectString]

\* A field of getBankInfo with the slice ending at the marker's last position,
\* which leaves out the field's last byte.
BankFieldExclusive(ibanFields, NumberFormated, marker) ==
    LET first == Index(ibanFields, marker)
        last  == LastIndex(ibanFields, marker)
    IN  IF first >= 0 /\ last >= 0
        THEN IF SliceOK(NumberFormated, first, last)
             THEN [panic |-> FALSE,
                   value |-> removeSpaces(Slice(NumberFormated, first, last))]
             ELSE [panic |-> TRUE, value |-> <<>>]
        ELSE [panic |-> FALSE, value |-> <<>>]

\* One field of getBankInfo: the bytes of the formatted number from the
\* marker's first position in the layout to its last, spaces removed; empty
\* when the layout has no such marker.
BankField(ibanFields, NumberFormated, marker) ==
    LET first == Index(ibanFields, marker)
        last  == LastIndex(ibanFields, marker)
    IN  IF first >= 0 /\ last >= 0
        THEN IF SliceOK(NumberFormated, first, last + 1)
             THEN [panic |-> FALSE,
                   value |-> removeSpaces(Slice(NumberFormated, first, last + 1))]
             ELSE [panic |-> TRUE, value |-> <<>>]
        ELSE [panic |-> FALSE, value |-> <<>>]

getBankInfoIn(code, iban) ==
    [b |-> BankField(code.ibanFields, iban.NumberFormated, "b"),
     s |-> BankField(code.ibanFields, iban.NumberFormated, "s"),
     c |-> BankField(code.ibanFields, iban.NumberFormated, "c")]

\* The three return values of getBankInfo, from the three fields sliced.
getBankInfoReturn(f) ==
    [panic |-> f.b.panic \/ f.s.panic \/ f.c.panic,
     bankCode |-> f.b.value, sortCode |-> f.s.value, accountNumber |-> f.c.value]

\* The entry whose code is the record's country code gives the fields; with
\* no such entry the three fields stay empty.
getBankInfo(iban) ==
    LET found == {k \in DOMAIN countryList : countryList[k].code = iban.CountryCode}
    IN  IF found = {}
        THEN [panic |-> FALSE, bankCode |-> <<>>, sortCode |-> <<>>, accountNumber |-> <<>>]
        ELSE getBankInfoReturn(getBankInfoIn(countryList[CHOOSE k \in found : TRUE], iban))

\* NewIBAN's last assignment and return: the bank fields of the record.
NewIBANFilled(split, info) ==
    IF info.panic THEN [panic |-> TRUE, iban |-> ZeroIBAN, err |-> NoError]
    ELSE [panic |-> FALSE,
          iban |-> [split EXCEPT !.BankCode = info.bankCode,
                                 !.SortCode = info.sortCode,
                                 !.AccountNumber = info.accountNumber],
          err |-> NoError]

\* NewIBAN's assignments of Number, NumberFormated and the three parts of
\* the formatted number.
NewIBANSplit(ibanNumber, formatedIBANNumber, parts) ==
    [ZeroIBAN EXCEPT !.Number = removeSpaces(ibanNumber),
                     !.NumberFormated = formatedIBANNumber,
                     !.CountryCode = parts.countryCode,
                     !.Checksum = parts.checksum,
                     !.BBAN = parts.bban]

NewIBANRecord(split) == NewIBANFilled(split, getBankInfo(split))

\* NewIBAN after its call of IsCorrectIban, whose return values are checked.
NewIBANChecked(ibanNumber, checked) ==
    IF checked.panic THEN [panic |-> TRUE, iban |-> ZeroIBAN, err |-> NoError]
    ELSE IF ~checked.isValid
    THEN [panic |-> FALSE, iban |-> ZeroIBAN, err |-> ErrInvalidIBAN]
    ELSE IF checked.err # NoError
    THEN [panic |-> FALSE, iban |-> ZeroIBAN, err |-> checked.err]
    ELSE IF splitIbanUpPanics(checked.wellFormated)
    THEN [panic |-> TRUE, iban |-> ZeroIBAN, err |-> NoError]
    ELSE NewIBANRecord(NewIBANSplit(ibanNumber, checked.wellFormated,
                                    splitIbanUp(checked.wellFormated)))

NewIBAN(ibanNumber) == NewIBANChecked(ibanNumber, IsCorrectIban(ibanNumber))

\* MarshalText: the bytes of Number, and no error.
MarshalText(i) == [text |-> i.Number, err |-> NoError]

\* UnmarshalText with the receiver assigned before the error is looked at.
UnmarshalTextAssignFirst(i, made) ==
    IF made.panic THEN [panic |-> TRUE, i |-> i, err |-> NoError]
    ELSE [panic |-> FALSE, i |-> made.iban, err |-> made.err]

\* UnmarshalText on the receiver i: the receiver is assigned only when NewIBAN
\* returned no error.
UnmarshalTextMade(i, made) ==
    IF made.panic THEN [panic |-> TRUE, i |-> i, err |-> NoError]
    ELSE IF made.err # NoError THEN [panic |-> FALSE, i |-> i, err |-> made.err]
    ELSE [panic |-> FALSE, i |-> made.iban, err |-> NoError]

\* The field i of the result is the receiver after the call.
UnmarshalText(i, text) == UnmarshalTextMade(i, NewIBAN(text))

(***************************************************************************)
(* The inputs.  Every function takes one string from its caller.  The       *)
(* strings checked are the numbers of the tests and of the documented       *)
(* scenarios, and every string MaxEdits single-byte changes away from one   *)
(* of them: a byte overwritten, a space appended, or the last byte dropped. *)
(***************************************************************************)
MaxEdits == 1

Seeds ==
    {
        <<"L", "U", "2", "8", " ", "0", "0", "1", "9", " ", "4", "0", "0", "6", " ", "4", "4", "7", "5", " ", "0", "0", "0", "0">>,
        <<"E", "S", "9", "1", "2", "1", "0", "0", "0", "4", "1", "8", "4", "5", "0", "2", "0", "0", "0", "5", "1", "3", "3", "2">>,
        <<"E", "S", "9", "1", "2", "1", "0", "0", "0", "4", "1", "8", "4", "5", "0", "2", "0", "0", "0", "5", "1", "3", "3", "2", " ", " ", " ", " ", " ", " ", " ">>,
        <<"L", "U", "1", "2", " ", "3", "4", "5", "6", " ", "7", "8", "9", "0", " ", "1", "2", "3", "4", " ", "5", "6", "7", "8">>,
        <<"L", "U", "2", "8", "0", "0", "1", "9">>,
        <<"N", "O", "9", "3", "8", "6", "0", "1", "1", "1", "1", "7", "9", "4", "7">>,
        <<"G", "B", "8", "2", " ", "W", "E", "S", "T", " ", "1", "2", "3", "4", " ", "5", "6", "9", "8", " ", "7", "6", "5", "4", " ", "3", "2">>,
        <<"Z", "Z", "2", "8", " ", "0", "0", "1", "9", " ", "4", "0", "0", "6", " ", "4", "4", "7", "5", " ", "0", "0", "0", "0">>,
        <<"L", "U", "0", "1", "0", "0", "1", "9", "4", "0", "0", "6", "4", "4", "7", "5", "0", "0", "0", "1">>,
        <<" ", " ", " ", " ", " ", " ", " ", " ", " ", " ", " ", " ", " ", " ", " ">>,
        <<>>
    }

\* The bytes a change writes: a digit, a lower-case letter, the two signs
\* strconv.Atoi reads, a tab and a space.
EditChars == {"7", "s", "+", "-", "\t", " "}

Edit(s) ==
    {[s EXCEPT ![p] = c] : p \in 1..Len(s), c \in EditChars}
    \cup {Append(s, " ")}
    \cup (IF s = <<>> THEN {} ELSE {SubSeq(s, 1, Len(s) - 1)})

RECURSIVE Edited(_, _)
Edited(S, n) ==
    IF n = 0 THEN S ELSE Edited(S \cup UNION {Edit(s) : s \in S}, n - 1)

\* The record the caller holds before it unmarshals into it: the one NewIBAN
\* returns for a valid number of the tests.
Held == NewIBAN(<<"E", "S", "3", "5", "0", "2", "2", "9", "7", "2", "0", "5", "8", "6", "0", "3", "0", "0", "0", "4", "2", "6", "3", "0">>).iban

(***************************************************************************)
(* The state: the caller's string, the calls made on it so far, what the    *)
(* last call returned, the record NewIBAN returned, the text handed to or   *)
(* returned by the text methods, and the record unmarshalled into.          *)
(***************************************************************************)
VARIABLES input, calls, out, made, txt, recv

vars == <<input, calls, out, made, txt, recv>>

Last == IF calls = <<>> THEN "none" ELSE calls[Len(calls)]

Init ==
    /\ \E s \in Seeds : input \in Edited({s}, MaxEdits)
    /\ calls = <<>>
    /\ out = [panic |-> FALSE]
    /\ made = ZeroIBAN
    /\ txt = <<>>
    /\ recv = Held

CallIsCorrectIban ==
    /\ calls = <<>>
    /\ out' = IsCorrectIban(input)
    /\ calls' = <<"IsCorrectIban">>
    /\ UNCHANGED <<input, made, txt, recv>>

CallGetIbanChecksum ==
    /\ calls = <<>>
    /\ out' = GetIbanChecksum(input)
    /\ calls' = <<"GetIbanChecksum">>
    /\ UNCHANGED <<input, made, txt, recv>>

CallNewIBAN ==
    /\ calls = <<>>
    /\ out' = NewIBAN(input)
    /\ made' = IF out'.panic THEN made ELSE out'.iban
    /\ calls' = <<"NewIBAN">>
    /\ UNCHANGED <<input, txt, recv>>

\* MarshalText of the record NewIBAN returned.
CallMarshalText ==
    /\ calls = <<"NewIBAN">>
    /\ ~out.panic /\ out.err = NoError
    /\ out' = [panic |-> FALSE] @@ MarshalText(made)
    /\ txt' = out'.text
    /\ calls' = Append(calls, "MarshalText")
    /\ UNCHANGED <<input, made, recv>>

\* UnmarshalText of the marshalled text into the held record.
CallUnmarshalText ==
    /\ calls = <<"NewIBAN", "MarshalText">>
    /\ out' = UnmarshalText(recv, txt)
    /\ recv' = out'.i
    /\ calls' = Append(calls, "UnmarshalText")
    /\ UNCHANGED <<input, made, txt>>

\* UnmarshalText of the caller's string into the held record.
CallUnmarshalInput ==
    /\ calls = <<>>
    /\ txt' = input
    /\ out' = UnmarshalText(recv, input)
    /\ recv' = out'.i
    /\ calls' = <<"UnmarshalText">>
    /\ UNCHANGED <<input, made>>

\* MarshalText of the record just unmarshalled.
CallMarshalAgain ==
    /\ Last = "UnmarshalText"
    /\ ~out.panic /\ out.err = NoError
    /\ out' = [panic |-> FALSE] @@ MarshalText(recv)
    /\ calls' = Append(calls, "MarshalText")
    /\ UNCHANGED <<input, made, txt, recv>>

Next ==
    \/ CallIsCorrectIban
    \/ CallGetIbanChecksum
    \/ CallNewIBAN
    \/ CallMarshalText
    \/ CallUnmarshalText
    \/ CallUnmarshalInput
    \/ CallMarshalAgain

Spec == Init /\ [][Next]_vars

(***************************************************************************)
(* What the properties below speak of.                                      *)
(***************************************************************************)
\* The normalized form of a string: spaces removed, letters upper-cased.
Normalized(s) == ToUpper(removeSpaces(s))

\* The first two bytes of a normalized form, or all of it when it is shorter.
CodeOf(n) == IF Len(n) >= 2 THEN SubSeq(n, 1, 2) ELSE n

IsDecimalDigit(c) == \E i \in 1..10 : DigitChars[i] = c

IsUpperLetter(c) == \E i \in 1..26 : UpperChars[i] = c

DecimalDigit(c) == (CHOOSE i \in 1..10 : DigitChars[i] = c) - 1

\* The value 10..35 of a letter A..Z.
LetterValue(c) == (CHOOSE i \in 1..26 : UpperChars[i] = c) + 9

AlphaNumeric(n) == \A i \in 1..Len(n) : IsDecimalDigit(n[i]) \/ IsUpperLetter(n[i])

\* The input is well formed: its normalized form is made of digits and
\* letters, names a country of the table and has that country's length.
WellFormed(raw) ==
    /\ AlphaNumeric(Normalized(raw))
    /\ CodeOf(Normalized(raw)) \in DOMAIN countryList
    /\ Len(Normalized(raw)) = countryList[CodeOf(Normalized(raw))].chars

\* The remainder modulo 97 of the integer whose decimal digits are s with
\* every letter replaced by its value, one character at a time, r being the
\* remainder of what was read so far.
RECURSIVE Remainder97(_, _)
Remainder97(s, r) ==
    IF s = <<>> THEN r
    ELSE IF IsUpperLetter(Head(s))
    THEN Remainder97(Tail(s), (r * 100 + LetterValue(Head(s))) % 97)
    ELSE Remainder97(Tail(s), (r * 10 + DecimalDigit(Head(s))) % 97)

\* BBAN + country code + check digits of a normalized form.
Rearranged(n) == SubSeq(n, 5, Len(n)) \o SubSeq(n, 1, 4)

\* IsCorrectIban returns, and reports the string valid.
ReportsValid(raw) == ~IsCorrectIban(raw).panic /\ IsCorrectIban(raw).isValid

\* The last call was NewIBAN and it returned a record and no error.
NewIBANSucceeded == calls = <<"NewIBAN">> /\ ~out.panic /\ out.err = NoError

\* The positions of a marker in a layout.
MarkerPositions(layout, marker) == {i \in 1..Len(layout) : layout[i] = marker}

Lowest(P) == CHOOSE i \in P : \A j \in P : i <= j

Highest(P) == CHOOSE i \in P : \A j \in P : i >= j

\* The field a layout gives for a marker, read off the formatted number.
FieldOf(layout, formatted, marker) ==
    IF MarkerPositions(layout, marker) = {} THEN <<>>
    ELSE removeSpaces(SubSeq(formatted, Lowest(MarkerPositions(layout, marker)),
                             Highest(MarkerPositions(layout, marker))))

LuxembourgNumber ==
    <<"L", "U", "2", "8", " ", "0", "0", "1", "9", " ", "4", "0", "0", "6", " ",
      "4", "4", "7", "5", " ", "0", "0", "0", "0">>

(***************************************************************************)
(* The properties.                                                          *)
(***************************************************************************)
\* C1: for every input string, IsCorrectIban, NewIBAN and GetIbanChecksum (and
\* UnmarshalText, which calls NewIBAN) end with a normal return, never with a
\* panic.  The code does not keep this: a string of 15 spaces passes the
\* length test, is empty once the spaces are removed, and splitIbanUp slices
\* it out of range.
C1_NoCallPanics == ~out.panic

\* C2: NewIBAN returns a record and a nil error exactly when IsCorrectIban
\* reports the input valid, and for every other input it returns the zero
\* record together with ErrInvalidIBAN.  The code does not keep this for the
\* inputs of C1, on which NewIBAN returns nothing at all.
C2_NewIBANReturnsRecordOrErrInvalidIBAN ==
    calls = <<"NewIBAN">> =>
        IF ReportsValid(input)
        THEN ~out.panic /\ out.err = NoError /\ out.iban # ZeroIBAN
        ELSE ~out.panic /\ out.err = ErrInvalidIBAN /\ out.iban = ZeroIBAN

\* C3: IsCorrectIban returns a non-nil error exactly when the input has a
\* structural problem, looked for in this order: raw length below 15, country
\* code not in the table, normalized length not the country's; a well-formed
\* input whose remainder is not 1 gives (false, "", nil); the formatted string
\* is empty whenever isValid is false and the error nil whenever it is true.
\* The code does not keep this for the inputs of C1, on which IsCorrectIban
\* returns nothing at all.
C3_ErrorExactlyForStructuralProblems ==
    calls = <<"IsCorrectIban">> =>
        /\ ~out.panic
        /\ out.err =
               IF Len(input) < 15 THEN ErrIncorrectString
               ELSE IF CodeOf(Normalized(input)) \notin DOMAIN countryList THEN ErrCountry
               ELSE IF Len(Normalized(input)) # countryList[CodeOf(Normalized(input))].chars
               THEN ErrLength
               ELSE NoError
        /\ ~out.isValid => out.wellFormated = <<>>
        /\ out.isValid => out.err = NoError

\* C4: for every well-formed input, IsCorrectIban reports valid if and only if
\* the integer written by BBAN + country code + check digits, each letter
\* replaced by its value 10..35, is congruent to 1 modulo 97: the reduction
\* of calculateModulo in chunks of nine digits gives the remainder of the
\* whole number.
C4_ValidIffRemainderIsOne ==
    (calls = <<"IsCorrectIban">> /\ WellFormed(input)) =>
        /\ ~out.panic
        /\ out.isValid <=> (Remainder97(Rearranged(Normalized(input)), 0) = 1)
        /\ calculateModulo(convertCharToNumber(Rearranged(Normalized(input))))
               = Remainder97(Rearranged(Normalized(input)), 0)

\* A well-formed number with letters in its BBAN was checked and found valid.
C4_ValidNumberWithLetters ==
    /\ calls = <<"IsCorrectIban">>
    /\ WellFormed(input)
    /\ out.isValid
    /\ \E i \in 5..Len(Normalized(input)) : IsUpperLetter(Normalized(input)[i])

\* C5: for every input IsCorrectIban reports valid, GetIbanChecksum returns a
\* nil error and the number's two check digits read as a decimal number.  The
\* code does not keep this: GetIbanChecksum refuses a string of exactly 15
\* bytes that IsCorrectIban accepts, and IsCorrectIban accepts numbers whose
\* check digits are 00, 01 or 99, which 98 - remainder never gives.
C5_ChecksumIsTheCheckDigits ==
    (calls = <<"GetIbanChecksum">> /\ ReportsValid(input)) =>
        /\ ~out.panic
        /\ out.err = NoError
        /\ IsDecimalDigit(Normalized(input)[3])
        /\ IsDecimalDigit(Normalized(input)[4])
        /\ out.checksum = 10 * DecimalDigit(Normalized(input)[3])
                             + DecimalDigit(Normalized(input)[4])

\* C6: for every input on which NewIBAN succeeds, the record's Number is the
\* input with the spaces removed and the letters upper-cased.  The code does
\* not keep this: Number is the input with the spaces removed, its lower-case
\* letters kept.
C6_NumberIsNormalized ==
    NewIBANSucceeded => out.iban.Number = Normalized(input)

\* C7: for every input on which NewIBAN succeeds, with c the normalized form,
\* CountryCode is c[0:2], Checksum is c[2:4] and BBAN is c[4:], so that the
\* three together are c and BBAN holds no space.  The code does not keep
\* this: the three are cut from the formatted number, so BBAN starts with a
\* space and holds one after every block of four.
C7_PartsOfTheNormalizedForm ==
    NewIBANSucceeded =>
        /\ out.iban.CountryCode = SubSeq(Normalized(input), 1, 2)
        /\ out.iban.Checksum = SubSeq(Normalized(input), 3, 4)
        /\ out.iban.BBAN = SubSeq(Normalized(input), 5, Len(Normalized(input)))

\* C8: for every record r NewIBAN returns, UnmarshalText of MarshalText(r)
\* succeeds and gives a record equal to r in every field, whose MarshalText is
\* the same bytes again; for a text NewIBAN rejects, UnmarshalText returns
\* NewIBAN's error and leaves the receiving record as it was.
C8_TextRoundTrip ==
    /\ calls = <<"NewIBAN", "MarshalText", "UnmarshalText">> =>
           ~out.panic /\ out.err = NoError /\ recv = made
    /\ calls = <<"NewIBAN", "MarshalText", "UnmarshalText", "MarshalText">> =>
           out.err = NoError /\ out.text = txt /\ recv = made
    /\ (/\ calls = <<"UnmarshalText">>
        /\ ~NewIBAN(txt).panic
        /\ NewIBAN(txt).err # NoError) =>
           ~out.panic /\ out.err = NewIBAN(txt).err /\ recv = Held

\* A record other than the held one went through MarshalText, UnmarshalText
\* and MarshalText again.
C8_RoundTripDone ==
    /\ calls = <<"NewIBAN", "MarshalText", "UnmarshalText", "MarshalText">>
    /\ made # Held
    /\ recv = made

\* C9: for every input on which NewIBAN succeeds and for each of BankCode
\* (marker b), SortCode (marker s) and AccountNumber (marker c): when the
\* marker occurs in the country's layout, the field is the bytes of the
\* formatted number from the marker's first position to its last, spaces
\* removed; when it does not, the field is empty and NewIBAN still succeeds.
\* Luxembourg gives the bank code 001 and no sort code.
C9_FieldsFollowTheLayout ==
    /\ NewIBANSucceeded =>
           /\ out.iban.BankCode =
                  FieldOf(countryList[CodeOf(Normalized(input))].ibanFields,
                          out.iban.NumberFormated, "b")
           /\ out.iban.SortCode =
                  FieldOf(countryList[CodeOf(Normalized(input))].ibanFields,
                          out.iban.NumberFormated, "s")
           /\ out.iban.AccountNumber =
                  FieldOf(countryList[CodeOf(Normalized(input))].ibanFields,
                          out.iban.NumberFormated, "c")
    /\ (calls = <<"NewIBAN">> /\ input = LuxembourgNumber) =>
           /\ NewIBANSucceeded
           /\ out.iban.BankCode = <<"0", "0", "1">>
           /\ out.iban.SortCode = <<>>

\* NewIBAN succeeded on a number of a country whose layout has a bank code and
\* an account number and no sort code.
C9_FieldsOfLuxembourg ==
    /\ NewIBANSucceeded
    /\ out.iban.CountryCode = <<"L", "U">>
    /\ out.iban.BankCode # <<>>
    /\ out.iban.AccountNumber # <<>>
    /\ out.iban.SortCode = <<>>

\* C10: every input IsCorrectIban reports valid has a normalized form made of
\* the characters 0-9 and A-Z only.  The code does not keep this:
\* strconv.Atoi reads a sign, so a "+" in the place of a leading zero of the
\* BBAN leaves the first chunk's value, and the verdict, as they were.
C10_ValidIsAlphaNumeric ==
    (calls = <<"IsCorrectIban">> /\ ~out.panic /\ out.isValid) =>
        AlphaNumeric(Normalized(input))

=============================================================================
